---- MODULE Spec2Model ----
(***************************************************************************)
(* control-rs: the server side of the Extron control program.              *)
(*                                                                         *)
(* main() runs one discovery on the main thread, then do_daemon() starts   *)
(* the runtime: run_server() creates the request queue and spawns          *)
(* cmd_loop(); every RPC call (list_devices, rescan, select_input) builds  *)
(* a ServerRequest with its own reply channel, enqueues it and awaits the  *)
(* reply; stop_server() signals server_app(), which leaves the serving     *)
(* phase.  Blocking serial work (enumerate_extron, select) is modelled     *)
(* step by step in the variable task.  What a serial port does when it is  *)
(* opened or read is the environment's choice at that step.                *)
(*                                                                         *)
(* Strings are sequences of one-character strings, so that trim_end,       *)
(* lines() and starts_with are computed and not assumed.                   *)
(***************************************************************************)
EXTENDS Integers, Sequences, FiniteSets, TLC

\* ---------------------------------------------------------------- bounds
MaxCalls == 2
MaxReads == 1

\* ------------------------------------------------------ program constants
CmdQueueCap == 50
StopCap == 1

CallIds == 1..MaxCalls

\* ---------------------------------------------------------------- strings
Whitespace == {"\r", "\n", " "}

RECURSIVE trim_end(_)
trim_end(s) ==
  IF s = <<>> THEN s
  ELSE IF s[Len(s)] \in Whitespace THEN trim_end(SubSeq(s, 1, Len(s) - 1))
  ELSE s

starts_with(l, p) ==
  /\ Len(p) <= Len(l)
  /\ SubSeq(l, 1, Len(p)) = p

\* BufRead::lines(): the line without its "\n" or "\r\n" terminator
lines_strip(raw) ==
  LET n == Len(raw) IN
  IF n >= 1 /\ raw[n] = "\n"
  THEN IF n >= 2 /\ raw[n - 1] = "\r" THEN SubSeq(raw, 1, n - 2)
       ELSE SubSeq(raw, 1, n - 1)
  ELSE raw

CRLF == <<"\r", "\n">>
NameA == <<"A">>
NameB == <<"B">>
Input3 == <<"3">>

error_prefix == <<"E", "0", "1">>

ok_pattern(input) == <<"I", "n">> \o input \o <<"A", "l", "l">>

\* what a device may put on the wire in answer to a select
RawLines ==
  { error_prefix \o CRLF,
    <<"I", "n", "3", "A", "l", "l">> \o CRLF,
    <<"g", "a", "r", "b", "a", "g", "e">> \o CRLF }

\* ------------------------------------------------------------- hardware
\* the serial ports, in the order serialport::available_ports() lists them
PortNames == <<"/dev/ttyA", "/dev/ttyB">>

Ports == 1..Len(PortNames)

\* what one serial port does when the scan reaches it: it is no Extron USB
\* port, it cannot be opened, an I/O call on it fails, or it answers the
\* name query with a line
Other == [kind |-> "other", line |-> <<>>]
NoOpen == [kind |-> "noopen", line |-> <<>>]
IoErr == [kind |-> "ioerr", line |-> <<>>]
Extron(raw) == [kind |-> "extron", line |-> raw]

HwStatus == {Other, NoOpen, IoErr, Extron(NameA \o CRLF), Extron(NameB \o CRLF)}

\* history of a scan: what each port has contributed, Other when nothing
NothingSeen == [p \in Ports |-> Other]

\* ------------------------------------------------------------- registry
ExtronDevice(name, path) == [name |-> name, device_path |-> path]

NoDevice == [name |-> <<>>, device_path |-> ""]

new == {}

\* variant: the first device of a name is kept
insert_first(map, name, path) ==
  IF \E d \in map : d.name = name THEN map
  ELSE map \cup {ExtronDevice(name, path)}

\* HashMap::insert in ExtronDeviceList::rescan
insert(map, name, path) ==
  {d \in map : d.name # name} \cup {ExtronDevice(name, path)}

\* variant: any device when the name is unknown
find_or_any(map, name) ==
  IF \E d \in map : d.name = name THEN {d \in map : d.name = name} ELSE map

find(map, name) ==
  {d \in map : d.name = name}

iter(map) == map

\* ------------------------------------------------------ requests, replies
ListDevicesCmd == [kind |-> "ListDevices", name |-> <<>>, input |-> <<>>]
RescanCmd == [kind |-> "Rescan", name |-> <<>>, input |-> <<>>]
SelectCmd(name, input) == [kind |-> "Select", name |-> name, input |-> input]
NoCmd == [kind |-> "none", name |-> <<>>, input |-> <<>>]

ServerCmd == {ListDevicesCmd, RescanCmd, SelectCmd(NameA, Input3)}

Res(tag, line) == [tag |-> tag, line |-> line]
Ok == Res("Ok", <<>>)
NoRes == Res("none", <<>>)
InternalError == Res("InternalError", <<>>)
DeviceNotFound == Res("DeviceNotFound", <<>>)
InvalidInput == Res("InvalidInput", <<>>)
IoError == Res("IoError", <<>>)
UnexpectedResponse(l) == Res("UnexpectedResponse", l)

\* a discovery awaited by cmd_loop (history): the call it served (0 for the
\* initial one), what the ports contributed, its outcome, and whether the
\* registry it left differs from the one before it
ScanEntry(c, seen, ok, changed) == [call |-> c, seen |-> seen, ok |-> ok, changed |-> changed]

NoScan == ScanEntry(0, NothingSeen, FALSE, FALSE)

\* epoch, txn and first are history fields: the number of discoveries
\* awaited when the reply was built, whether a select task was run for it,
\* and the first line that task read (empty when it read none)
ServerReply(kind, devs, res, txn, first, epoch) ==
  [kind |-> kind, devs |-> devs, res |-> res, txn |-> txn, first |-> first, epoch |-> epoch]

\* a connection attempt: st is "none", "accepted" or "refused"; late is a
\* history field, the attempt was made after the serving phase had ended
Conn(st, late) == [st |-> st, late |-> late]

\* st: "unused", "waiting" (request sent, reply awaited), "done" (the call
\* returned what it made of a reply), "failed" (it returned without a reply),
\* "gone" (dropped before it returned, its connection closed), "stopped"
\* (dropped before it returned, by the end of the serving phase).  busy is a
\* history field, kept while the call waits: a Rescan's discovery was running
\* when it was submitted
NoCall == [cmd |-> NoCmd, st |-> "unused", res |-> NoRes, busy |-> FALSE]

NoTask ==
  [st |-> "idle", kind |-> "none", owner |-> "none", idx |-> 0, map |-> {},
   dev |-> NoDevice, input |-> <<>>, res |-> NoRes, first |-> <<>>, seen |-> NothingSeen]

VARIABLES
  pc_main,      \* main(): "enumerate", "enumerating", "daemon", "halted"
  hwActive,     \* number of serial transactions in progress
  task,         \* the blocking task (a discovery or a select)
  loopState,    \* cmd_loop: "Initializing", "Ready", "Terminated"
  loopPc,       \* "start", "init_wait", "recv", "rescan_wait", "select_wait", "end"
  cur,          \* the request cmd_loop is executing, 0 when none
  device_list,  \* cmd_loop's registry
  cmd_queue,    \* the request channel
  calls,        \* the RPC calls
  reply,        \* the reply channel of each call
  nextCall,
  stop_ch,      \* the stop channel
  termCause,    \* history: why cmd_loop ended
  enqLog,       \* history: calls in the order they were enqueued
  deqLog,       \* history: calls in the order cmd_loop dequeued them
  sentLog,      \* history: calls in the order cmd_loop sent their replies
  scans,        \* history: the number of discoveries cmd_loop has awaited
  lastScan,     \* history: the last of them
  conn,         \* the last connection attempt made to the listener
  stop_call     \* the stop_server call whose signal was sent: "none", "sent",
                \* "done" (its caller got the answer), "gone" (it did not)

vars ==
  <<pc_main, hwActive, task, loopState, loopPc, cur, device_list, cmd_queue,
    calls, reply, nextCall, stop_ch, termCause, enqLog, deqLog, sentLog, scans,
    lastScan, conn, stop_call>>

scanVars == <<scans, lastScan>>
loopVars == <<loopState, loopPc, cur, device_list, termCause, scanVars>>
callVars == <<calls, nextCall>>
logVars == <<enqLog, deqLog, sentLog>>
netVars == <<conn, stop_call>>

Init ==
  /\ pc_main = "enumerate"
  /\ hwActive = 0
  /\ task = NoTask
  /\ loopState = "Initializing"
  /\ loopPc = "start"
  /\ cur = 0
  /\ device_list = new
  /\ cmd_queue = <<>>
  /\ calls = [c \in CallIds |-> NoCall]
  /\ reply = [c \in CallIds |-> <<>>]
  /\ nextCall = 1
  /\ stop_ch = <<>>
  /\ termCause = "none"
  /\ enqLog = <<>>
  /\ deqLog = <<>>
  /\ sentLog = <<>>
  /\ scans = 0
  /\ lastScan = NoScan
  /\ conn = Conn("none", FALSE)
  /\ stop_call = "none"

\* ------------------------------------------------- the blocking task
Spawn(kind, owner, dev, input) ==
  /\ task' = [NoTask EXCEPT !.st = "running", !.kind = kind, !.owner = owner,
                            !.dev = dev, !.input = input]
  /\ hwActive' = hwActive + 1

TaskDone(t, res) ==
  /\ task' = [t EXCEPT !.st = "done", !.res = res]
  /\ hwActive' = hwActive - 1

\* a scan that returns Err: the list it was building is dropped
ScanFailed ==
  TaskDone([task EXCEPT !.map = new, !.seen = NothingSeen], IoError)

\* variant: the scan is run on cmd_loop's own list (device_list.rescan())
ScanBeginInPlace ==
  /\ task.st = "running" /\ task.kind = "scan" /\ task.idx = 0
  /\ \E ok \in BOOLEAN :
       IF ok
       THEN /\ task' = [task EXCEPT !.idx = 1, !.map = new]
            /\ hwActive' = hwActive
       ELSE ScanFailed
  /\ device_list' = IF task.owner = "loop" THEN new ELSE device_list
  /\ UNCHANGED <<netVars, pc_main, loopState, loopPc, cur, termCause, scanVars,
                 cmd_queue, reply, callVars, stop_ch, logVars>>

\* variant: the scan adds to the devices cmd_loop already has
ScanBeginKeepOld ==
  /\ task.st = "running" /\ task.kind = "scan" /\ task.idx = 0
  /\ \E ok \in BOOLEAN :
       IF ok
       THEN /\ task' = [task EXCEPT !.idx = 1,
                                    !.map = IF task.owner = "loop" THEN device_list ELSE new]
            /\ hwActive' = hwActive
       ELSE ScanFailed
  /\ UNCHANGED <<netVars, pc_main, loopVars, cmd_queue, reply, callVars, stop_ch, logVars>>

\* ExtronDeviceList::rescan, up to the port loop: clear the map of the list
\* being built, then serialport::available_ports()?
ScanBegin ==
  /\ task.st = "running" /\ task.kind = "scan" /\ task.idx = 0
  /\ \E ok \in BOOLEAN :
       IF ok
       THEN /\ task' = [task EXCEPT !.idx = 1, !.map = new]
            /\ hwActive' = hwActive
       ELSE ScanFailed
  /\ UNCHANGED <<netVars, pc_main, loopVars, cmd_queue, reply, callVars, stop_ch, logVars>>

\* one iteration of the port loop of ExtronDeviceList::rescan; s is what
\* the port does
ScanPort ==
  /\ task.st = "running" /\ task.kind = "scan" /\ task.idx \in Ports
  /\ \E s \in HwStatus :
       LET p == task.idx
           m == IF s.kind = "extron"
                THEN insert(task.map, trim_end(s.line), PortNames[p])
                ELSE task.map
           t == [task EXCEPT !.idx = p + 1, !.map = m,
                             !.seen[p] = IF s.kind = "extron" THEN s ELSE Other]
       IN  IF s.kind = "ioerr" THEN ScanFailed
           ELSE IF p = Len(PortNames) THEN TaskDone(t, Ok)
           ELSE task' = t /\ hwActive' = hwActive
  /\ UNCHANGED <<netVars, pc_main, loopVars, cmd_queue, reply, callVars, stop_ch, logVars>>

\* ExtronDevice::select: open the port and write "<input>!"
SelectOpen ==
  /\ task.st = "running" /\ task.kind = "select" /\ task.idx = 0
  /\ \E ok \in BOOLEAN :
       IF ok THEN task' = [task EXCEPT !.idx = 1] /\ hwActive' = hwActive
       ELSE TaskDone(task, IoError)
  /\ UNCHANGED <<netVars, pc_main, loopVars, cmd_queue, reply, callVars, stop_ch, logVars>>

\* the body of the read loop of ExtronDevice::select for one line
line_result(l, input) ==
  IF starts_with(l, error_prefix) THEN InvalidInput
  ELSE IF starts_with(l, ok_pattern(input)) THEN Ok
  ELSE UnexpectedResponse(l)

\* what a read of the port yields: a line, the end of the stream, or an
\* error (the 100 ms timeout, a disconnect)
ReadOutcome ==
  {[kind |-> "line", raw |-> r] : r \in RawLines}
    \cup {[kind |-> "eof", raw |-> <<>>], [kind |-> "err", raw |-> <<>>]}

\* one turn of "for line in serial_reader.lines()"
SelectRead ==
  /\ task.st = "running" /\ task.kind = "select" /\ task.idx >= 1
  /\ \E o \in ReadOutcome :
       /\ o.kind = "line" => task.idx <= MaxReads
       /\ IF o.kind = "eof" THEN TaskDone(task, Ok)
          ELSE IF o.kind = "err" THEN TaskDone(task, IoError)
          ELSE LET l == lines_strip(o.raw)
                   t == [task EXCEPT !.idx = task.idx + 1,
                                     !.first = IF task.idx = 1 THEN l ELSE task.first]
                   r == line_result(l, task.input)
               IN  IF r = Ok THEN task' = t /\ hwActive' = hwActive
                   ELSE TaskDone(t, r)
  /\ UNCHANGED <<netVars, pc_main, loopVars, cmd_queue, reply, callVars, stop_ch, logVars>>

\* a blocking task whose JoinHandle was dropped with cmd_loop
TaskDiscard ==
  /\ task.st = "done" /\ task.owner = "loop" /\ loopState = "Terminated"
  /\ task' = NoTask
  /\ UNCHANGED <<netVars, pc_main, hwActive, loopVars, cmd_queue, reply, callVars,
                 stop_ch, logVars>>

\* ------------------------------------------------------------- main()
\* let devices = ExtronDeviceList::enumerate_extron()
MainEnumerate ==
  /\ pc_main = "enumerate"
  /\ task.st = "idle"
  /\ Spawn("scan", "main", NoDevice, <<>>)
  /\ pc_main' = "enumerating"
  /\ UNCHANGED <<netVars, loopVars, cmd_queue, reply, callVars, stop_ch, logVars>>

\* .unwrap_or(ExtronDeviceList::new()), then the "server" subcommand, which
\* does not read devices again: do_daemon
MainDaemon ==
  /\ pc_main = "enumerating"
  /\ task.st = "done" /\ task.owner = "main"
  /\ task' = NoTask
  /\ pc_main' = "daemon"
  /\ UNCHANGED <<netVars, hwActive, loopVars, cmd_queue, reply, callVars, stop_ch, logVars>>

\* ----------------------------------------------------------- cmd_loop
\* variant: the newest request first
recv_last(q) == Len(q)

\* cmd_rx.recv() hands out the oldest request of the channel
recv_index(q) == 1

Remove(q, i) == SubSeq(q, 1, i - 1) \o SubSeq(q, i + 1, Len(q))

Received == cmd_queue[recv_index(cmd_queue)]

Rest == Remove(cmd_queue, recv_index(cmd_queue))

\* variant: the next request is taken without awaiting the blocking task
LoopCanRecvNoWait ==
  /\ loopState = "Ready"
  /\ cmd_queue # <<>>

\* cmd_loop is at "while let Some(request) = cmd_rx.recv().await"
LoopCanRecv ==
  /\ loopState = "Ready"
  /\ loopPc = "recv"
  /\ cmd_queue # <<>>

\* cmd_loop returns: the task ends and drops cmd_rx with the queued requests
Terminate(cause) ==
  /\ loopState' = "Terminated"
  /\ loopPc' = "end"
  /\ cur' = 0
  /\ termCause' = cause
  /\ cmd_queue' = <<>>

\* request.reply_channel.send(r).await.map_err(..)?  q is the queue left
ReplyTo(c, r, q) ==
  IF calls[c].st = "waiting"
  THEN /\ reply' = [reply EXCEPT ![c] = <<r>>]
       /\ sentLog' = Append(sentLog, c)
       /\ loopState' = "Ready"
       /\ loopPc' = "recv"
       /\ cur' = 0
       /\ termCause' = termCause
       /\ cmd_queue' = q
  ELSE /\ reply' = reply
       /\ sentLog' = sentLog
       /\ Terminate("reply_closed")

\* history: cmd_loop has awaited the discovery t, run for call c
Awaited(c, t) ==
  /\ scans' = scans + 1
  /\ lastScan' = ScanEntry(c, t.seen, t.res = Ok, device_list' # device_list)

\* spawn_blocking(enumerate_extron) at the top of cmd_loop
LoopInitStart ==
  /\ pc_main = "daemon"
  /\ loopState = "Initializing" /\ loopPc = "start"
  /\ task.st = "idle"
  /\ Spawn("scan", "loop", NoDevice, <<>>)
  /\ loopPc' = "init_wait"
  /\ UNCHANGED <<netVars, pc_main, loopState, cur, device_list, termCause, scanVars,
                 cmd_queue, reply, callVars, stop_ch, logVars>>

\* let devices = join.await?; let mut device_list = devices?;
LoopInitDone ==
  /\ loopState = "Initializing" /\ loopPc = "init_wait"
  /\ task.st = "done" /\ task.owner = "loop"
  /\ IF task.res = Ok
     THEN /\ device_list' = task.map
          /\ loopState' = "Ready"
          /\ loopPc' = "recv"
          /\ UNCHANGED <<cur, termCause, cmd_queue>>
     ELSE /\ Terminate("init_failed")
          /\ UNCHANGED device_list
  /\ Awaited(0, task)
  /\ task' = NoTask
  /\ UNCHANGED <<netVars, pc_main, hwActive, reply, callVars, stop_ch, logVars>>

\* ServerCmd::ListDevices
LoopListDevices ==
  /\ LoopCanRecv
  /\ calls[Received].cmd.kind = "ListDevices"
  /\ LET c == Received IN
       /\ deqLog' = Append(deqLog, c)
       /\ ReplyTo(c, ServerReply("ListDevices", iter(device_list), NoRes, FALSE, <<>>, scans), Rest)
  /\ UNCHANGED <<netVars, pc_main, hwActive, task, device_list, scanVars, callVars,
                 stop_ch, enqLog>>

\* ServerCmd::Rescan, up to the await of the blocking task
LoopRescanStart ==
  /\ LoopCanRecv
  /\ calls[Received].cmd.kind = "Rescan"
  /\ LET c == Received IN
       /\ deqLog' = Append(deqLog, c)
       /\ cur' = c
  /\ cmd_queue' = Rest
  /\ Spawn("scan", "loop", NoDevice, <<>>)
  /\ loopPc' = "rescan_wait"
  /\ UNCHANGED <<netVars, pc_main, loopState, device_list, termCause, scanVars, reply,
                 callVars, stop_ch, enqLog, sentLog>>

\* variant: the previous registry is retained
RescanErrKeep(old) == old

\* the registry after a Rescan whose discovery failed
RescanErr(old) == new

\* variant: the failure of the discovery is returned with "?"
LoopRescanDonePropagate ==
  /\ loopState = "Ready" /\ loopPc = "rescan_wait"
  /\ task.st = "done" /\ task.owner = "loop" /\ task.kind = "scan"
  /\ device_list' = IF task.res = Ok THEN task.map ELSE RescanErr(device_list)
  /\ Awaited(cur, task)
  /\ IF task.res = Ok
     THEN ReplyTo(cur, ServerReply("RescanReply", {}, NoRes, FALSE, <<>>, scans'), cmd_queue)
     ELSE reply' = reply /\ sentLog' = sentLog /\ Terminate("rescan_failed")
  /\ task' = NoTask
  /\ UNCHANGED <<netVars, pc_main, hwActive, callVars, stop_ch, enqLog, deqLog>>

\* ServerCmd::Rescan, from the result of the blocking task to the reply
LoopRescanDone ==
  /\ loopState = "Ready" /\ loopPc = "rescan_wait"
  /\ task.st = "done" /\ task.owner = "loop" /\ task.kind = "scan"
  /\ device_list' = IF task.res = Ok THEN task.map ELSE RescanErr(device_list)
  /\ Awaited(cur, task)
  /\ ReplyTo(cur, ServerReply("RescanReply", {}, NoRes, FALSE, <<>>, scans'), cmd_queue)
  /\ task' = NoTask
  /\ UNCHANGED <<netVars, pc_main, hwActive, callVars, stop_ch, enqLog, deqLog>>

\* ServerCmd::Select when device_list.find() is None
LoopSelectNotFound ==
  /\ LoopCanRecv
  /\ calls[Received].cmd.kind = "Select"
  /\ find(device_list, calls[Received].cmd.name) = {}
  /\ LET c == Received IN
       /\ deqLog' = Append(deqLog, c)
       /\ ReplyTo(c, ServerReply("Select", {}, DeviceNotFound, FALSE, <<>>, scans), Rest)
  /\ UNCHANGED <<netVars, pc_main, hwActive, task, device_list, scanVars, callVars,
                 stop_ch, enqLog>>

\* ServerCmd::Select when the device is found: spawn_blocking(device.select)
LoopSelectStart ==
  /\ LoopCanRecv
  /\ calls[Received].cmd.kind = "Select"
  /\ \E d \in find(device_list, calls[Received].cmd.name) :
       Spawn("select", "loop", d, calls[Received].cmd.input)
  /\ LET c == Received IN
       /\ deqLog' = Append(deqLog, c)
       /\ cur' = c
  /\ cmd_queue' = Rest
  /\ loopPc' = "select_wait"
  /\ UNCHANGED <<netVars, pc_main, loopState, device_list, termCause, scanVars, reply,
                 callVars, stop_ch, enqLog, sentLog>>

\* variant: a select that failed with an I/O error is started again
LoopSelectDoneRetry ==
  /\ loopState = "Ready" /\ loopPc = "select_wait"
  /\ task.st = "done" /\ task.owner = "loop" /\ task.kind = "select"
  /\ IF task.res = IoError
     THEN /\ Spawn("select", "loop", task.dev, task.input)
          /\ UNCHANGED <<loopState, loopPc, cur, termCause, cmd_queue, reply, sentLog>>
     ELSE /\ ReplyTo(cur, ServerReply("Select", {}, task.res, TRUE, task.first, scans), cmd_queue)
          /\ task' = NoTask
          /\ UNCHANGED hwActive
  /\ UNCHANGED <<netVars, pc_main, device_list, scanVars, callVars, stop_ch,
                 enqLog, deqLog>>

\* ServerCmd::Select, from the result of the blocking task to the reply
LoopSelectDone ==
  /\ loopState = "Ready" /\ loopPc = "select_wait"
  /\ task.st = "done" /\ task.owner = "loop" /\ task.kind = "select"
  /\ ReplyTo(cur, ServerReply("Select", {}, task.res, TRUE, task.first, scans), cmd_queue)
  /\ task' = NoTask
  /\ UNCHANGED <<netVars, pc_main, hwActive, device_list, scanVars, callVars, stop_ch,
                 enqLog, deqLog>>

\* ------------------------------------------------------- the RPC calls
\* history: a Rescan's discovery is past available_ports() and not finished
RescanRunning ==
  /\ cur # 0
  /\ calls[cur].cmd.kind = "Rescan"
  /\ task.st = "running" /\ task.idx >= 1

\* variant: the blocking task runs on the thread that serves the calls
CallSubmitStalled ==
  /\ task.st # "running"
  /\ pc_main = "daemon"
  /\ conn.st = "accepted"
  /\ nextCall <= MaxCalls
  /\ \E cmd \in ServerCmd :
       IF loopState = "Terminated"
       THEN /\ calls' = [calls EXCEPT ![nextCall] =
                           [NoCall EXCEPT !.cmd = cmd, !.st = "failed", !.res = InternalError]]
            /\ UNCHANGED <<cmd_queue, enqLog>>
       ELSE /\ Len(cmd_queue) < CmdQueueCap
            /\ cmd_queue' = Append(cmd_queue, nextCall)
            /\ enqLog' = Append(enqLog, nextCall)
            /\ calls' = [calls EXCEPT ![nextCall] =
                           [NoCall EXCEPT !.cmd = cmd, !.st = "waiting", !.busy = RescanRunning]]
  /\ nextCall' = nextCall + 1
  /\ UNCHANGED <<netVars, pc_main, hwActive, task, loopVars, reply, stop_ch, deqLog, sentLog>>

\* list_devices, rescan, select_input: a fresh reply channel, then
\* tx_channel.send(request).await.map_err(..)?
CallSubmit ==
  /\ pc_main = "daemon"
  /\ conn.st = "accepted"
  /\ nextCall <= MaxCalls
  /\ \E cmd \in ServerCmd :
       IF loopState = "Terminated"
       THEN /\ calls' = [calls EXCEPT ![nextCall] =
                           [NoCall EXCEPT !.cmd = cmd, !.st = "failed", !.res = InternalError]]
            /\ UNCHANGED <<cmd_queue, enqLog>>
       ELSE /\ Len(cmd_queue) < CmdQueueCap
            /\ cmd_queue' = Append(cmd_queue, nextCall)
            /\ enqLog' = Append(enqLog, nextCall)
            /\ calls' = [calls EXCEPT ![nextCall] =
                           [NoCall EXCEPT !.cmd = cmd, !.st = "waiting", !.busy = RescanRunning]]
  /\ nextCall' = nextCall + 1
  /\ UNCHANGED <<netVars, pc_main, hwActive, task, loopVars, reply, stop_ch, deqLog, sentLog>>

\* what the call makes of Some(reply)
call_result(cmd, r) ==
  IF cmd.kind = "ListDevices"
  THEN IF r.kind = "ListDevices" THEN Ok ELSE InternalError
  ELSE IF cmd.kind = "Rescan" THEN Ok
  ELSE IF r.kind = "Select" THEN r.res ELSE InternalError

\* what the call makes of None
call_result_none(cmd) ==
  IF cmd.kind = "ListDevices" THEN Ok ELSE InternalError

\* rx.recv().await returns Some(reply)
CallRecv(c) ==
  /\ pc_main = "daemon"
  /\ calls[c].st = "waiting"
  /\ reply[c] # <<>>
  /\ calls' = [calls EXCEPT ![c].st = "done",
                            ![c].res = call_result(calls[c].cmd, Head(reply[c])),
                            ![c].busy = FALSE]
  /\ reply' = [reply EXCEPT ![c] = Tail(reply[c])]
  /\ UNCHANGED <<netVars, pc_main, hwActive, task, loopVars, cmd_queue, nextCall,
                 stop_ch, logVars>>

\* the request, and with it the sender of the reply channel, still exists
SenderAlive(c) ==
  \/ cur = c
  \/ \E i \in 1..Len(cmd_queue) : cmd_queue[i] = c

\* rx.recv().await returns None
CallRecvNone(c) ==
  /\ pc_main = "daemon"
  /\ calls[c].st = "waiting"
  /\ reply[c] = <<>>
  /\ ~SenderAlive(c)
  /\ calls' = [calls EXCEPT ![c].st = "failed",
                            ![c].res = call_result_none(calls[c].cmd),
                            ![c].busy = FALSE]
  /\ UNCHANGED <<netVars, pc_main, hwActive, task, loopVars, cmd_queue, reply, nextCall,
                 stop_ch, logVars>>

\* the connection of a waiting call closes: its future, and rx, are dropped
CallerGone(c) ==
  /\ pc_main = "daemon"
  /\ calls[c].st = "waiting"
  /\ calls' = [calls EXCEPT ![c].st = "gone", ![c].busy = FALSE]
  /\ reply' = [reply EXCEPT ![c] = <<>>]
  /\ UNCHANGED <<netVars, pc_main, hwActive, task, loopVars, cmd_queue, nextCall,
                 stop_ch, logVars>>

\* ------------------------------------------------------- connections
\* variant: the listener outlives the serving phase
ConnectAlways ==
  /\ pc_main \in {"daemon", "halted"}
  /\ conn' = Conn("accepted", pc_main = "halted")
  /\ UNCHANGED <<pc_main, hwActive, task, loopVars, cmd_queue, reply, callVars,
                 stop_ch, logVars, stop_call>>

\* a client connects: while run_server is running its loop accepts the
\* connection (listener.accept()); the listener is dropped with run_server
\* when server_app returns, and the attempt is refused
Connect ==
  /\ pc_main \in {"daemon", "halted"}
  /\ conn' = IF pc_main = "daemon" THEN Conn("accepted", FALSE) ELSE Conn("refused", TRUE)
  /\ UNCHANGED <<pc_main, hwActive, task, loopVars, cmd_queue, reply, callVars,
                 stop_ch, logVars, stop_call>>

\* ----------------------------------------------------------- shutdown
\* stop_server: stop.send(true).await
StopServer ==
  /\ pc_main = "daemon"
  /\ conn.st = "accepted"
  /\ Len(stop_ch) < StopCap
  /\ stop_ch' = Append(stop_ch, TRUE)
  /\ stop_call' = "sent"
  /\ UNCHANGED <<pc_main, hwActive, task, loopVars, cmd_queue, reply, callVars,
                 logVars, conn>>

\* server_app: the stop_rx.recv() arm of select!; run_server is dropped with
\* the listener and the connections, then the runtime, and with it cmd_loop
\* and every call still pending.  Nothing orders the arm after the write of
\* stop_server's answer to its caller's connection: acked says whether the
\* RPC system had written it.  The history of the dropped cmd_loop is not
\* kept past the end of the serving phase
ServerAppStop ==
  /\ pc_main = "daemon"
  /\ stop_ch # <<>>
  /\ stop_ch' = Tail(stop_ch)
  /\ pc_main' = "halted"
  /\ loopState' = "Terminated"
  /\ loopPc' = "end"
  /\ cur' = 0
  /\ cmd_queue' = <<>>
  /\ termCause' = IF loopState = "Terminated" THEN termCause ELSE "stop"
  /\ calls' = [c \in CallIds |->
                 IF calls[c].st = "waiting"
                 THEN [calls[c] EXCEPT !.st = "stopped", !.busy = FALSE] ELSE calls[c]]
  /\ reply' = [c \in CallIds |-> <<>>]
  /\ \E acked \in BOOLEAN : stop_call' = IF acked THEN "done" ELSE "gone"
  /\ device_list' = new
  /\ scans' = 0 /\ lastScan' = NoScan
  /\ enqLog' = <<>> /\ deqLog' = <<>> /\ sentLog' = <<>>
  /\ UNCHANGED <<hwActive, task, nextCall, conn>>

Next ==
  \/ MainEnumerate
  \/ MainDaemon
  \/ ScanBegin
  \/ ScanPort
  \/ SelectOpen
  \/ SelectRead
  \/ TaskDiscard
  \/ LoopInitStart
  \/ LoopInitDone
  \/ LoopListDevices
  \/ LoopRescanStart
  \/ LoopRescanDone
  \/ LoopSelectNotFound
  \/ LoopSelectStart
  \/ LoopSelectDone
  \/ CallSubmit
  \/ \E c \in CallIds : CallRecv(c)
  \/ \E c \in CallIds : CallRecvNone(c)
  \/ \E c \in CallIds : CallerGone(c)
  \/ Connect
  \/ StopServer
  \/ ServerAppStop

Spec == Init /\ [][Next]_vars

\* the steps of the blocking thread, of main and server_app, of cmd_loop and
\* of a call's wait for its reply are taken when they can be; connections,
\* calls, disconnects and stop requests are the clients' choice
TaskStep == ScanBegin \/ ScanPort \/ SelectOpen \/ SelectRead \/ TaskDiscard

MainStep == MainEnumerate \/ MainDaemon \/ ServerAppStop

LoopStep ==
  \/ LoopInitStart \/ LoopInitDone \/ LoopListDevices \/ LoopRescanStart
  \/ LoopRescanDone \/ LoopSelectNotFound \/ LoopSelectStart \/ LoopSelectDone

Fairness ==
  /\ WF_vars(TaskStep)
  /\ WF_vars(MainStep)
  /\ WF_vars(LoopStep)
  /\ \A c \in CallIds : WF_vars(CallRecv(c) \/ CallRecvNone(c))

FairSpec == Init /\ [][Next]_vars /\ Fairness

\* ================================================================ claims
IsPrefix(a, b) == Len(a) <= Len(b) /\ SubSeq(b, 1, Len(a)) = a

Last(q) == q[Len(q)]

Range(q) == {q[i] : i \in 1..Len(q)}

\* the calls whose reply is in flight
InFlight == {c \in CallIds : reply[c] # <<>>}

\* the in-flight replies built since the last awaited discovery
Fresh == {c \in InFlight : Head(reply[c]).epoch = scans}

\* the devices a discovery yields from what the ports contributed: one per
\* answering port, the later port winning when two report one name
Answering(seen) == {p \in Ports : seen[p].kind = "extron"}

NameOf(seen, p) == trim_end(seen[p].line)

Expected(seen) ==
  {ExtronDevice(NameOf(seen, p), PortNames[p]) :
     p \in {q \in Answering(seen) :
              \A r \in Answering(seen) : r > q => NameOf(seen, r) # NameOf(seen, q)}}

\* the registry cmd_loop holds after awaiting the discovery e
RegistryOf(e) == IF e.ok THEN Expected(e.seen) ELSE {}

Names(map) == {d.name : d \in map}

\* C1: cmd_loop dequeues the requests in the order they were enqueued, one
\* at a time: the dequeued calls are a prefix of the enqueued ones, replies
\* are sent in that order, and at most the last dequeued call has no reply
\* yet, which is the one being executed.
C1_FifoOneAtATime ==
  /\ IsPrefix(deqLog, enqLog)
  /\ IsPrefix(sentLog, deqLog)
  /\ Len(deqLog) - Len(sentLog) <= 1
  /\ cur # 0 => (deqLog # <<>> /\ cur = Last(deqLog) /\ Len(sentLog) = Len(deqLog) - 1)

\* a call submitted while the first one was being executed is executed
\* second, after the reply to the first was sent
C1_Witness ==
  /\ Len(deqLog) = 2
  /\ sentLog = <<deqLog[1]>>
  /\ cur = deqLog[2]
  /\ calls[cur].busy

\* C2: at most one serial transaction (main's discovery, cmd_loop's initial
\* discovery, a Rescan's discovery, a select) is in progress in any state.
C2_OneTransaction == hwActive <= 1

\* a Rescan's discovery is running while a select waits in the queue
C2_Witness ==
  /\ hwActive = 1
  /\ RescanRunning
  /\ \E i \in 1..Len(cmd_queue) : calls[cmd_queue[i]].cmd.kind = "Select"

\* C3: readers only see the complete result of the last awaited discovery:
\* device_list is never cleared or partly filled while cmd_loop is Ready,
\* every ListDevices reply is that registry and every SelectInput lookup is
\* made in it.
C3_AtomicSwap ==
  /\ loopState = "Ready" => (scans >= 1 /\ device_list = RegistryOf(lastScan))
  /\ \A c \in Fresh :
       LET r == Head(reply[c]) IN
         /\ r.kind = "ListDevices" => r.devs = RegistryOf(lastScan)
         /\ r.kind = "Select" =>
              ((r.res = DeviceNotFound)
                 <=> (calls[c].cmd.name \notin Names(RegistryOf(lastScan))))
  /\ (loopState = "Ready" /\ task.kind = "select") => task.dev \in RegistryOf(lastScan)

\* a ListDevices submitted while a Rescan's discovery was running has been
\* answered with the registry of that Rescan, which differs from the one
\* before it
C3_Witness ==
  \E c \in Fresh :
    /\ calls[c].busy
    /\ Head(reply[c]).kind = "ListDevices"
    /\ Head(reply[c]).devs # {}
    /\ lastScan.call # 0 /\ lastScan.ok /\ lastScan.changed

\* C4: a ListDevices serviced after a successful Rescan, no other Rescan in
\* between, returns the devices of that Rescan's discovery: a device for
\* every name a port answered, at the last port that answered it, and
\* nothing else; the call returns Ok.
C4_ListAfterRescan ==
  \A c \in Fresh :
    LET r == Head(reply[c]) IN
      (r.kind = "ListDevices" /\ lastScan.call # 0 /\ lastScan.ok) =>
        /\ \A p \in Answering(lastScan.seen) :
             \E d \in r.devs : d.name = NameOf(lastScan.seen, p)
        /\ \A d \in r.devs :
             \E p \in Answering(lastScan.seen) :
               /\ d = ExtronDevice(NameOf(lastScan.seen, p), PortNames[p])
               /\ \A q \in Answering(lastScan.seen) :
                    NameOf(lastScan.seen, q) = d.name => q <= p
        /\ call_result(calls[c].cmd, r) = Ok

\* the Rescan found two ports answering one name, and the list after it
\* has the device at the later port
C4_Witness ==
  \E c \in Fresh :
    /\ Head(reply[c]).kind = "ListDevices"
    /\ lastScan.call # 0 /\ lastScan.ok /\ lastScan.changed
    /\ Cardinality(Answering(lastScan.seen)) = 2
    /\ Cardinality(Head(reply[c]).devs) = 1

\* C5: a SelectInput whose name is not in the registry when it is executed
\* is answered DeviceNotFound, which is what its caller gets, and no select
\* task is started for it.
C5_SelectNotFound ==
  /\ \A c \in Fresh :
       LET r == Head(reply[c]) IN
         (r.kind = "Select" /\ calls[c].cmd.name \notin Names(device_list)) =>
           /\ r.res = DeviceNotFound
           /\ ~r.txn
           /\ call_result(calls[c].cmd, r) = DeviceNotFound
  /\ (cur # 0 /\ task.kind = "select") => calls[cur].cmd.name \in Names(device_list)

\* a Rescan has changed the registry, which holds a device of another name,
\* and a select of the absent name has been answered
C5_Witness ==
  \E c \in Fresh :
    /\ Head(reply[c]) = ServerReply("Select", {}, DeviceNotFound, FALSE, <<>>, scans)
    /\ lastScan.call # 0 /\ lastScan.ok /\ lastScan.changed
    /\ device_list # {}

\* C6: the result of a select is decided by the first line the device
\* returns: InvalidInput for the error prefix, success for the echo
\* In<input>All, UnexpectedResponse with the line otherwise.
C6_FirstLineDecides ==
  \A c \in InFlight :
    LET r == Head(reply[c]) IN
      (r.kind = "Select" /\ r.txn /\ r.first # <<>>) =>
        r.res = line_result(r.first, calls[c].cmd.input)

\* C7: if the initial discovery fails, cmd_loop is Ready with an empty
\* registry.
C7_InitFailureStartsEmpty ==
  (pc_main = "daemon" /\ scans = 1 /\ lastScan.call = 0 /\ ~lastScan.ok) =>
    (loopState = "Ready" /\ device_list = {})

\* C8: a Rescan that cmd_loop has dequeued never returns a failure to its
\* caller, whether its discovery succeeds or fails: the call does not end
\* without a reply, and what it makes of the reply is Ok.
C8_RescanNeverFails ==
  \A c \in CallIds :
    (calls[c].cmd.kind = "Rescan" /\ c \in Range(deqLog)) =>
      /\ calls[c].st # "failed"
      /\ calls[c].st = "done" => calls[c].res = Ok
      /\ c \in InFlight => call_result(calls[c].cmd, Head(reply[c])) = Ok

\* the discovery of a Rescan failed and its caller has got Ok
C8_Witness ==
  \E c \in CallIds :
    /\ calls[c].cmd.kind = "Rescan"
    /\ calls[c].st = "done" /\ calls[c].res = Ok
    /\ lastScan.call = c /\ ~lastScan.ok

\* C9: after a Rescan whose discovery failed the registry is empty: the
\* next ListDevices returns no device and the next SelectInput is answered
\* DeviceNotFound without a select task.
C9_FailedRescanEmpties ==
  (lastScan.call # 0 /\ ~lastScan.ok) =>
    /\ loopState = "Ready" => device_list = {}
    /\ \A c \in Fresh :
         LET r == Head(reply[c]) IN
           /\ r.kind = "ListDevices" => r.devs = {}
           /\ r.kind = "Select" => (r.res = DeviceNotFound /\ ~r.txn)

\* the registry was not empty before the failed Rescan, and a ListDevices
\* after it has been answered
C9_Witness ==
  \E c \in Fresh :
    /\ Head(reply[c]).kind = "ListDevices"
    /\ lastScan.call # 0 /\ ~lastScan.ok /\ lastScan.changed

\* C10: once Ready, cmd_loop ends only by the stop of the server, never
\* because of one command (a failed select, a failed discovery, a caller
\* that has gone away).
C10_LoopSurvivesCommands ==
  (loopState = "Terminated" /\ termCause # "init_failed") => termCause = "stop"

\* C11: a call of list_devices, rescan or select_input that could not
\* enqueue its request, or whose reply channel closed without a reply
\* (st = "failed"), returns the internal error and never a success.
C11_InternalErrorWithoutReply ==
  \A c \in CallIds : calls[c].st = "failed" => calls[c].res = InternalError

\* C12: once server_app has taken the stop signal the serving phase has
\* ended for good: a connection attempt made from then on is refused, no
\* call is submitted, and what a call had returned to its caller before the
\* stop stays as it was (at the stop and at every other step).
C12_StopRefusesConnections ==
  [][/\ pc_main = "halted" =>
          /\ pc_main' = "halted"
          /\ nextCall' = nextCall
          /\ conn' # conn => conn'.st = "refused"
     /\ \A c \in CallIds : calls[c].st = "done" => calls'[c] = calls[c]]_vars

\* a call got its reply, the server was stopped, and a connection attempt
\* made after that was refused
C12_Witness ==
  /\ pc_main = "halted"
  /\ conn = Conn("refused", TRUE)
  /\ \E c \in CallIds : calls[c].st = "done" /\ calls[c].res = Ok

\* C13: a call that is waiting for its reply when the stop signal has not
\* been sent yet is never dropped by the end of the serving phase: its reply
\* (or its error) reaches the caller before server_app returns.
C13_StopDeliversInFlightReplies ==
  \A c \in CallIds :
    []((stop_ch = <<>> /\ calls[c].st = "waiting") => [](calls[c].st # "stopped"))

\* C14: the stop_server call whose signal ends the serving phase is
\* answered: the end of the serving phase never leaves its caller without
\* the answer.
C14_StopCallerAnswered == stop_call # "gone"

\* C15: the registry a successful Rescan leaves is decided by what the
\* ports answered in its discovery and by nothing else, so a Rescan that
\* follows a successful Rescan and finds every port answering as before
\* leaves the registry (which is what ListDevices replies) as it was.
C15_RescanIdempotent ==
  [][(cur # 0 /\ scans' = scans + 1 /\ task.res = Ok) =>
       /\ device_list' = Expected(task.seen)
       /\ (lastScan.call # 0 /\ lastScan.ok /\ task.seen = lastScan.seen) =>
            device_list' = device_list]_vars

\* two Rescans were executed one after the other and the second left the
\* devices the first had found
C15_Witness ==
  /\ deqLog = <<1, 2>>
  /\ calls[1].cmd.kind = "Rescan" /\ calls[2].cmd.kind = "Rescan"
  /\ sentLog = <<1, 2>>
  /\ lastScan.call = 2 /\ lastScan.ok /\ ~lastScan.changed
  /\ device_list # {}

\* C16: a discovery that got the list of ports (idx >= 1) succeeds whatever
\* the ports do: a port that cannot be opened or does not answer is skipped.
C16_BestEffortDiscovery ==
  (task.kind = "scan" /\ task.st = "done" /\ task.idx >= 1) => task.res = Ok

\* C17: under fair scheduling a call that waits for its reply has its
\* request dequeued and executed, and the reply sent, unless its caller
\* disconnects or the server is stopped first.
C17_EveryCommandCompletes ==
  \A c \in CallIds :
    (calls[c].st = "waiting") ~>
      (c \in Range(sentLog) \/ calls[c].st \in {"gone", "stopped"} \/ pc_main = "halted")

\* C18: once a select has read a line it is finished, with the result that
\* line decides: it reads no further line.
C18_FirstLineEndsRead ==
  (task.kind = "select" /\ task.first # <<>>) =>
    (task.st = "done" /\ task.res = line_result(task.first, task.input))

\* C19: a select task is started only by the step that dequeues a
\* SelectInput not dequeued before, so a command has at most one; while it
\* exists the registry is not changed; and when cmd_loop has awaited it, its
\* result, an I/O failure included, is the reply and what the caller returns.
C19_SelectNotRetried ==
  [][/\ (task' # task /\ task'.kind = "select" /\ task'.st = "running" /\ task'.idx = 0) =>
          /\ cur' # 0
          /\ cur' \notin Range(deqLog)
          /\ deqLog' = Append(deqLog, cur')
          /\ calls[cur'].cmd.kind = "Select"
     /\ (task.kind = "select" /\ pc_main' # "halted") => device_list' = device_list
     /\ (task.kind = "select" /\ task.st = "done" /\ task' # task /\ loopState = "Ready"
           /\ pc_main' # "halted" /\ calls[cur].st = "waiting") =>
          /\ task' = NoTask
          /\ reply'[cur] # <<>>
          /\ Head(reply'[cur]).res = task.res
          /\ call_result(calls[cur].cmd, Head(reply'[cur])) = task.res]_vars

\* the select of a registered device failed with an I/O error before any
\* line was read; the error is the reply and the device is still registered
C19_Witness ==
  \E c \in InFlight :
    /\ Head(reply[c]) = ServerReply("Select", {}, IoError, TRUE, <<>>, scans)
    /\ calls[c].cmd.name \in Names(device_list)
    /\ task = NoTask

\* C20: the stop signal is raised only when every request enqueued before
\* it has been executed and answered: none is queued or being executed at
\* the step that sends the signal.
C20_StopInQueueOrder ==
  [][Len(stop_ch') > Len(stop_ch) => (cmd_queue = <<>> /\ cur = 0)]_vars

\* the ServerReply variant that answers a command
ReplyVariant(kind) ==
  IF kind = "ListDevices" THEN "ListDevices"
  ELSE IF kind = "Rescan" THEN "RescanReply"
  ELSE "Select"

\* C21: the step that ends the execution of a dequeued command puts one
\* reply on the channel of that command's call, in the variant of the
\* command; a reply is put on a channel by no other step, never on a channel
\* that holds one, never twice for a call, and on one channel at a time.
C21_OneMatchingReply ==
  [][/\ \A c \in CallIds :
          (reply'[c] # reply[c] /\ reply'[c] # <<>>) =>
            /\ reply[c] = <<>> /\ Len(reply'[c]) = 1
            /\ c \notin Range(sentLog) /\ sentLog' = Append(sentLog, c)
            /\ IF cur # 0 THEN cur = c ELSE deqLog' = Append(deqLog, c)
            /\ Head(reply'[c]).kind = ReplyVariant(calls[c].cmd.kind)
            /\ \A d \in CallIds \ {c} : reply'[d] = reply[d]
     /\ (cur # 0 /\ cur' = 0) => reply'[cur] # <<>>
     /\ (cur = 0 /\ cur' = 0 /\ Len(deqLog') = Len(deqLog) + 1) =>
          reply'[Last(deqLog')] # <<>>]_vars

\* C22: while a blocking task of cmd_loop (a discovery or a select) runs,
\* the listener accepts a connection, a connected client can submit a call
\* (as long as the queue has room), and cmd_loop dequeues nothing.
C22_WorkerDoesNotStall ==
  (pc_main = "daemon" /\ task.st = "running" /\ task.owner = "loop") =>
    /\ ENABLED Connect
    /\ (conn.st = "accepted" /\ nextCall <= MaxCalls /\ Len(cmd_queue) < CmdQueueCap) =>
         ENABLED CallSubmit
    /\ ~ENABLED (LoopListDevices \/ LoopRescanStart \/ LoopSelectNotFound \/ LoopSelectStart)

\* a call submitted while a Rescan's discovery was running waits in the
\* queue, and the discovery is still running
C22_Witness ==
  /\ RescanRunning
  /\ hwActive = 1
  /\ \E i \in 1..Len(cmd_queue) : calls[cmd_queue[i]].busy

\* C23: the hardware is accessed only through the command loop: a hardware
\* transaction that is running was started by cmd_loop (its initial
\* discovery, a Rescan or a Select), never by any other part of the program.
C23_HardwareOnlyThroughLoop ==
  (task.st = "running" \/ hwActive # 0) => task.owner = "loop"

Rank(s) == CASE s = "Initializing" -> 1 [] s = "Ready" -> 2 [] s = "Terminated" -> 3

\* C24: the loop state only moves forward (Initializing, Ready, Terminated);
\* a command is taken from the queue only in state Ready; and while the
\* server runs, the step that leaves Initializing keeps every command that
\* was enqueued during the initial discovery, in the order of enqueueing.
C24_ForwardOnlyNothingLost ==
  [][/\ Rank(loopState') >= Rank(loopState)
     /\ (cur' # 0 /\ cur' # cur) => loopState = "Ready"
     /\ Len(deqLog') = Len(deqLog) + 1 => loopState = "Ready"
     /\ (loopState = "Initializing" /\ pc_main' # "halted") =>
          /\ deqLog = <<>> /\ cmd_queue = enqLog
          /\ loopState' # "Initializing" => cmd_queue' = cmd_queue]_vars

\* C25: the request queue never holds more than its capacity, and while the
\* server runs every call that was accepted has been enqueued exactly once:
\* none was rejected or dropped instead of enqueued, none enqueued twice.
C25_BoundedQueueNoLoss ==
  /\ Len(cmd_queue) <= CmdQueueCap
  /\ pc_main = "daemon" =>
       \A c \in CallIds :
         calls[c].st # "unused" =>
           Cardinality({i \in DOMAIN enqLog : enqLog[i] = c}) = 1

====
